---------------------------- MODULE Spec2Model ----------------------------
(***************************************************************************)
(* A state-machine model of the acpreact agent-bridge engine.             *)
(*                                                                         *)
(*   src/core.js          class ACPProtocol, the interactive variant:     *)
(*                        a long-lived child process speaking newline-    *)
(*                        delimited JSON-RPC on its stdin/stdout.         *)
(*   src/unnamed/part_001 class ACPProtocol, the batch variant: one child *)
(*                        process per process() call whose captured       *)
(*                        output is scraped for tool calls on close.      *)
(*                                                                         *)
(* The two classes share registerTool / validateToolCall / callTool line  *)
(* for line.  The variable `variant` records which class was constructed. *)
(*                                                                         *)
(* Timestamps (new Date()) are left out of the log records: no code reads *)
(* them.  A timer is modelled by membership in a set of armed timers and  *)
(* may fire at any later step, except that timers of one delay fire in    *)
(* the order they were armed and that, of the two timers start() arms,    *)
(* the 500 ms one fires before the 30 s one.                              *)
(***************************************************************************)
EXTENDS Integers, Sequences, FiniteSets, TLC

(***************************************************************************)
(* Bounds of the model.                                                    *)
(***************************************************************************)
\* callTool invocations (through any entry point) in one behaviour
MaxCalls == 2
\* child processes spawned by start() in one behaviour
MaxProcs == 2
\* prompt requests issued by sendPrompt in one behaviour
MaxPrompts == 2
\* messages written to the child's stdin in one behaviour
MaxSent == 3
\* process() invocations in one behaviour
MaxProcessCalls == 1

(***************************************************************************)
(* Values.                                                                 *)
(***************************************************************************)
\* null, for cliProcess (a pid otherwise)
NoProcess == 0
\* null / undefined, for string-valued fields
Null == "null"
\* undefined, for msg.id
NoId == -1

\* names a host registers with registerTool
RegNames == {"lookup", "echo"}
\* names an agent may ask for: the registered ones and one nobody registers,
\* which `this.tools`, like every JS object, inherits as a function
ToolNames == RegNames \cup {"toString"}
\* properties that `this.tools = {}` inherits from Object.prototype
ObjectPrototypeNames == {"toString"}
\* what registerTool may be given as handler: a function that returns, a
\* function that fails, or nothing at all (undefined)
HandlerKinds == {"returns", "throws", "undefined"}
Params == {"q"}
\* what registerTool may be given as description
Descriptions == {"d1", "d2"}
SessionIds == {"s1"}

\* the result a handler returns for its arguments
NoValue == <<>>
HandlerResult(handler, toolName, params) ==
  IF handler = "inherited" THEN <<"[object]">> ELSE <<toolName, params>>

(***************************************************************************)
(* State.                                                                  *)
(***************************************************************************)
VARIABLES
  variant,          \* which class was constructed: "interactive" | "batch"
  messageId,        \* this.messageId
  toolWhitelist,    \* this.toolWhitelist: a JS Set, kept in insertion order
  tools,            \* this.tools: own properties, name -> handler
  toolDescriptions, \* this.toolDescriptions: name -> description (and, written
                    \* and read beside it in the same way, this.toolSchemas)
  toolCallLog,      \* this.toolCallLog
  rejectedCallLog,  \* this.rejectedCallLog
  cliProcess,       \* this.cliProcess: NoProcess or the pid of the handle
  pendingRequests,  \* this.pendingRequests: the ids that map to a resolver
  initialized,      \* this.initialized
  sessionId,        \* this.sessionId
  procs,            \* spawned children whose 'close' was not yet delivered
  spawned,          \* number of children spawned so far (pids are 1..spawned)
  startPromise,     \* pid -> the promise start() created when spawning it
  readyListeners,   \* pids whose once('ready') listener is still registered
  initTimers,       \* pids whose 30 s initialization timer is armed
  sessionTimers,    \* pids whose 500 ms createSession timer is armed
  prompts,          \* request id -> the promise sendPrompt returned for it
  promptTimers,     \* request ids whose 120 s timer is armed
  sent,             \* what was written to the children's stdin, in order
  calls,            \* the callTool invocations made so far, in order of entry
  processCalls,     \* the process() invocations made so far (interactive)
  batchRuns,        \* the process() invocations made so far (batch)
  stdoutBytes,      \* the bytes a child writes to its stdout, in order
  delivered,        \* how many of them 'data' events have delivered so far
  buffer,           \* this.buffer
  dispatched,       \* the lines processBuffer has passed to handleMessage
  inbound,          \* the line handleMessage was given by the last step, or
                    \* NoLine after any other step
  lastReturn        \* what the start(), stop() or sendPrompt() call made by
                    \* the last step returned or threw ("pending": a promise
                    \* not yet settled); NoReturn after any other step

\* the fields of the object and the runtime's promises, timers and pipes
engineVars == <<variant, messageId, toolWhitelist, tools, toolDescriptions,
                toolCallLog,
                rejectedCallLog, cliProcess, pendingRequests, initialized,
                sessionId, procs, spawned, startPromise, readyListeners,
                initTimers, sessionTimers, prompts, promptTimers, sent,
                calls, processCalls, batchRuns, stdoutBytes, delivered,
                buffer, dispatched>>

vars == <<engineVars, inbound, lastReturn>>

feedVars == <<stdoutBytes, delivered, buffer, dispatched>>
registryVars == <<toolWhitelist, tools, toolDescriptions>>
logVars == <<toolCallLog, rejectedCallLog, calls>>
procVars == <<cliProcess, procs, spawned, startPromise, readyListeners,
              initTimers, sessionTimers>>
promptVars == <<messageId, pendingRequests, prompts, promptTimers>>
sessionVars == <<procVars, promptVars, initialized, sessionId, processCalls>>

NoReturn == [op |-> "none", outcome |-> Null]
\* no line: the value of `inbound` after a step that handled none
NoLine ==
  [valid |-> FALSE, method |-> "none", toolName |-> "", id |-> NoId,
   result |-> [defined |-> FALSE, sessionId |-> "", data |-> ""],
   error |-> "", params |-> ""]

Range(s) == {s[i] : i \in DOMAIN s}
Min(S) == CHOOSE x \in S : \A y \in S : x <= y

(***************************************************************************)
(* Tool registry and invocation guard (both variants).                     *)
(***************************************************************************)
\* Set.prototype.has
WhitelistHas(toolName) == toolName \in Range(toolWhitelist)

\* Set.prototype.add: a name already present keeps its place
WhitelistAdd(name) ==
  IF WhitelistHas(name) THEN toolWhitelist ELSE Append(toolWhitelist, name)

\* registerTool(name, description, inputSchema, handler)
RegisterTool(name, description, handler) ==
  /\ toolWhitelist' = WhitelistAdd(name)
  /\ tools' = [n \in DOMAIN tools \cup {name} |->
                 IF n = name THEN handler ELSE tools[n]]
  /\ toolDescriptions' = [n \in DOMAIN toolDescriptions \cup {name} |->
                            IF n = name THEN description
                            ELSE toolDescriptions[n]]
  /\ lastReturn' = NoReturn
  /\ inbound' = NoLine
  /\ UNCHANGED <<feedVars, variant, logVars, sessionVars, sent, batchRuns>>

\* this.tools[toolName]: the own property when the name was registered (it
\* may hold undefined), else what the object inherits from Object.prototype
ToolsLookup(toolName) ==
  IF toolName \in DOMAIN tools THEN tools[toolName]
  ELSE IF toolName \in ObjectPrototypeNames THEN "inherited"
  ELSE "undefined"

\* a validateToolCall that lets every name through
ValidateToolCallAlways(toolName) ==
  [allowed |-> TRUE, rejected |-> rejectedCallLog]

\* a validateToolCall that turns a name down without logging it
ValidateToolCallSilent(toolName) ==
  [allowed |-> WhitelistHas(toolName), rejected |-> rejectedCallLog]

\* a validateToolCall that also turns down a name that has no handler
ValidateToolCallNeedsHandler(toolName) ==
  IF ~WhitelistHas(toolName) \/ ToolsLookup(toolName) = "undefined"
  THEN [allowed |-> FALSE,
        rejected |-> Append(rejectedCallLog,
                            [attemptedTool |-> toolName,
                             reason |-> "Not in whitelist",
                             availableTools |-> toolWhitelist])]
  ELSE [allowed |-> TRUE, rejected |-> rejectedCallLog]

\* validateToolCall(toolName): the verdict and the rejection log it leaves
ValidateToolCall(toolName) ==
  IF ~WhitelistHas(toolName)
  THEN [allowed |-> FALSE,
        rejected |-> Append(rejectedCallLog,
                            [attemptedTool |-> toolName,
                             reason |-> "Not in whitelist",
                             availableTools |-> toolWhitelist])]
  ELSE [allowed |-> TRUE, rejected |-> rejectedCallLog]

\* The synchronous part of callTool(toolName, params), up to its await (or
\* to its throw): the two logs it leaves and the record of the invocation.
\*   via     who called: "api" (the host), "rpc" (handleToolCall, for the
\*           request with id rpcId), "batch" (the scrape loop of run rpcId)
\*   state   "awaiting": the handler was called and callTool is suspended
\*           "threw":    callTool's promise is rejected with `error`
\*   logIdx  the index of the CallRecord this invocation pushed (0: none)
\*   log     this.toolCallLog as callTool finds it
CallToolEnterOn(log, via, rpcId, toolName, params) ==
  LET validation == ValidateToolCall(toolName)
      handler == ToolsLookup(toolName)
      pushed == Append(log,
                       [toolName |-> toolName, params |-> params,
                        status |-> "executing", result |-> NoValue])
      base == [via |-> via, rpcId |-> rpcId, toolName |-> toolName,
               params |-> params, whitelisted |-> WhitelistHas(toolName),
               handler |-> "undefined", handlerRan |-> FALSE, logIdx |-> 0,
               state |-> "threw", error |-> "Tool not available",
               value |-> NoValue]
  IN IF ~validation.allowed
     THEN [rejected |-> validation.rejected, log |-> log,
           call |-> base]
     ELSE IF handler # "undefined"
     THEN [rejected |-> validation.rejected, log |-> pushed,
           call |-> [base EXCEPT !.handler = handler, !.handlerRan = TRUE,
                                 !.logIdx = Len(pushed),
                                 !.state = "awaiting", !.error = ""]]
     ELSE [rejected |-> validation.rejected, log |-> pushed,
           call |-> [base EXCEPT !.logIdx = Len(pushed),
                                 !.error = "Unknown tool"]]

CallToolEnter(via, rpcId, toolName, params) ==
  CallToolEnterOn(toolCallLog, via, rpcId, toolName, params)

\* callTool after its await: the handler's promise has settled.  A result
\* is written to the LAST record of the log; a failure leaves the log alone.
CallToolResume(c) ==
  IF c.handler = "throws"
  THEN [log |-> toolCallLog,
        call |-> [c EXCEPT !.state = "threw", !.error = "handler failed"]]
  ELSE LET result == HandlerResult(c.handler, c.toolName, c.params)
           last == Len(toolCallLog)
       IN [log |-> [toolCallLog EXCEPT ![last].status = "completed",
                                       ![last].result = result],
           call |-> [c EXCEPT !.state = "returned", !.value = result]]

(***************************************************************************)
(* Messages.                                                               *)
(***************************************************************************)
\* msg.result: undefined, or an object that may carry a sessionId
NoResult == [defined |-> FALSE, sessionId |-> "", data |-> ""]
SessionResult(sid) == [defined |-> TRUE, sessionId |-> sid, data |-> ""]
PlainResult == [defined |-> TRUE, sessionId |-> "", data |-> "answer"]

\* A line of the child's stdout.  `valid` says whether JSON.parse accepts
\* it; the other fields are the parsed object's.  A method "tools/<name>"
\* is kept as its prefix (method) and the rest (toolName).
Line(valid, method, toolName, id, result, error, params) ==
  [valid |-> valid, method |-> method, toolName |-> toolName, id |-> id,
   result |-> result, error |-> error, params |-> params]

MsgIds == 1 .. MaxPrompts

\* the lines that ask for a tool
ToolLines ==
  {Line(TRUE, "tools/", n, i, NoResult, "", q) :
     n \in ToolNames, i \in MsgIds, q \in Params}

\* the other lines: noise, the handshake, responses, notifications
SessionLines ==
     {Line(FALSE, "", "", NoId, NoResult, "", "")}
  \cup {Line(TRUE, "initialize", "", i, NoResult, "", "") : i \in MsgIds}
  \cup {Line(TRUE, "", "", i, SessionResult(sid), "", "") :
          i \in MsgIds, sid \in SessionIds}
  \cup {Line(TRUE, "", "", i, PlainResult, "", "") : i \in MsgIds}
  \cup {Line(TRUE, "", "", i, NoResult, "agent error", "") : i \in MsgIds}
  \cup {Line(TRUE, "session/update", "", NoId, NoResult, "", "")}

AgentLines == ToolLines \cup SessionLines

\* what the engine writes to the child's stdin
Outbound(kind, method, id, result, error, toolList) ==
  [to |-> cliProcess, kind |-> kind, method |-> method, id |-> id,
   result |-> result, error |-> error, tools |-> toolList]

\* send(msg): written only while a process handle is held
Send(msg) == IF cliProcess # NoProcess THEN Append(sent, msg) ELSE sent

CanSend == Len(sent) < MaxSent

\* createJsonRpcResponse(id, result)
CreateJsonRpcResponse(id, result) ==
  Outbound("result", "", id, result, "", <<>>)

\* createJsonRpcError(id, error)
CreateJsonRpcError(id, error) ==
  Outbound("error", "", id, NoValue, error, <<>>)

\* a getToolsList that advertises the first registered tool only
GetToolsListFirstOnly ==
  [i \in DOMAIN toolWhitelist \cap {1} |->
     [name |-> toolWhitelist[i],
      description |-> toolDescriptions[toolWhitelist[i]]]]

\* getToolsList(): one entry per whitelisted name, in insertion order
GetToolsList ==
  [i \in DOMAIN toolWhitelist |->
     [name |-> toolWhitelist[i],
      description |-> toolDescriptions[toolWhitelist[i]]]]

\* createInitializeResponse(id)
CreateInitializeResponse(id) ==
  Outbound("result", "initialize", id, NoValue, "", GetToolsList)

(***************************************************************************)
(* Promises.                                                               *)
(***************************************************************************)
\* the values a prompt promise is resolved with
NoAnswer == [tag |-> "none", sessionId |-> "", data |-> ""]
ResultAnswer(result) ==
  [tag |-> "result", sessionId |-> result.sessionId, data |-> result.data]
ErrorAnswer(error) == [tag |-> "error", sessionId |-> "", data |-> error]
TimeoutAnswer == [tag |-> "timeout", sessionId |-> "", data |-> ""]

PendingPrompt == [state |-> "pending", value |-> NoAnswer, resolveCalls |-> 0]
PendingStart == [state |-> "pending", value |-> Null]

\* Calling a promise's resolve function: the first call settles it, a later
\* call changes nothing.  resolveCalls counts the calls.
Resolve(promise, value) ==
  IF promise.state = "pending"
  THEN [state |-> "resolved", value |-> value,
        resolveCalls |-> promise.resolveCalls + 1]
  ELSE [promise EXCEPT !.resolveCalls = @ + 1]

\* toolCallLog.slice(-LogTailCount), as the range of indices it copies
LogTailCount == 10
TailView(log) ==
  [from |-> IF Len(log) > LogTailCount THEN Len(log) - LogTailCount + 1 ELSE 1,
   to |-> Len(log)]
NoView == [from |-> 0, to |-> 0]

\* process() after `await this.sendPrompt(text)`: each invocation waiting
\* for a prompt that is now resolved returns its result object.
SettleProcessCalls(pcs, newPrompts) ==
  [k \in DOMAIN pcs |->
     IF pcs[k].state = "awaitPrompt"
        /\ newPrompts[pcs[k].reqId].state = "resolved"
     THEN [pcs[k] EXCEPT !.state = "returned",
                         !.result = newPrompts[pcs[k].reqId].value,
                         !.toolCalls = TailView(toolCallLog)]
     ELSE pcs[k]]

(***************************************************************************)
(* Interactive variant (src/core.js): the tool entry points.               *)
(***************************************************************************)
\* a host calling callTool(toolName, params) itself
CallTool(toolName, params) ==
  /\ Len(calls) < MaxCalls
  /\ LET r == CallToolEnter("api", NoId, toolName, params)
     IN /\ rejectedCallLog' = r.rejected
        /\ toolCallLog' = r.log
        /\ calls' = Append(calls, r.call)
  /\ lastReturn' = NoReturn
  /\ inbound' = NoLine
  /\ UNCHANGED <<feedVars, variant, registryVars, sessionVars, sent, batchRuns>>

\* a handleToolCall without its catch
HandleToolCallNoCatch(id, toolName, params) ==
  /\ Len(calls) < MaxCalls
  /\ LET r == CallToolEnter("rpc", id, toolName, params)
     IN /\ rejectedCallLog' = r.rejected
        /\ toolCallLog' = r.log
        /\ calls' = Append(calls, r.call)
  /\ UNCHANGED <<feedVars, variant, registryVars, sessionVars, sent,
                 batchRuns>>

\* handleToolCall(id, toolName, params), up to callTool's await.  A callTool
\* that throws before its await is caught at once and answered by an error.
HandleToolCall(id, toolName, params) ==
  /\ Len(calls) < MaxCalls
  /\ LET r == CallToolEnter("rpc", id, toolName, params)
     IN /\ rejectedCallLog' = r.rejected
        /\ toolCallLog' = r.log
        /\ calls' = Append(calls, r.call)
        /\ IF r.call.state = "threw"
           THEN /\ CanSend
                /\ sent' = Send(CreateJsonRpcError(id, r.call.error))
           ELSE sent' = sent
  /\ UNCHANGED <<feedVars, variant, registryVars, sessionVars, batchRuns>>

\* The handler's promise of invocation i settles and callTool resumes; for
\* an invocation made by handleToolCall, its try or its catch then answers.
ToolResume(i) ==
  /\ calls[i].via # "batch"
  /\ calls[i].state = "awaiting"
  /\ LET r == CallToolResume(calls[i])
     IN /\ toolCallLog' = r.log
        /\ calls' = [calls EXCEPT ![i] = r.call]
        /\ IF calls[i].via = "rpc"
           THEN /\ CanSend
                /\ sent' = Send(IF r.call.state = "returned"
                                THEN CreateJsonRpcResponse(calls[i].rpcId,
                                                           r.call.value)
                                ELSE CreateJsonRpcError(calls[i].rpcId,
                                                        r.call.error))
           ELSE sent' = sent
  /\ lastReturn' = NoReturn
  /\ inbound' = NoLine
  /\ UNCHANGED <<feedVars, variant, registryVars, rejectedCallLog, sessionVars,
                 batchRuns>>

(***************************************************************************)
(* Interactive variant: process lifecycle.                                 *)
(***************************************************************************)
\* start() past its first line: spawn the child, register its handlers,
\* arm the two timers, wait for 'ready'
Spawn ==
  /\ spawned < MaxProcs
  /\ spawned' = spawned + 1
  /\ cliProcess' = spawned + 1
  /\ procs' = procs \cup {spawned + 1}
  /\ startPromise' = Append(startPromise, PendingStart)
  /\ readyListeners' = readyListeners \cup {spawned + 1}
  /\ initTimers' = initTimers \cup {spawned + 1}
  /\ sessionTimers' = sessionTimers \cup {spawned + 1}

\* a host calling start()
Start ==
  /\ variant = "interactive"
  /\ IF cliProcess # NoProcess
     THEN /\ lastReturn' = [op |-> "start", outcome |-> sessionId]
          /\ UNCHANGED procVars
     ELSE /\ Spawn
          /\ lastReturn' = [op |-> "start", outcome |-> "pending"]
  /\ inbound' = NoLine
  /\ UNCHANGED <<feedVars, variant, registryVars, logVars, promptVars, initialized,
                 sessionId, sent, processCalls, batchRuns>>

\* the 500 ms timer of start(): createSession()
CreateSession(p) ==
  /\ p = Min(sessionTimers)
  /\ CanSend
  /\ sessionTimers' = sessionTimers \ {p}
  /\ sent' = Send(Outbound("request", "session/new", 1, NoValue, "", <<>>))
  /\ lastReturn' = NoReturn
  /\ inbound' = NoLine
  /\ UNCHANGED <<feedVars, variant, registryVars, logVars, promptVars, cliProcess,
                 procs, spawned, startPromise, readyListeners, initTimers,
                 initialized, sessionId, processCalls, batchRuns>>

\* the 30 s timer of start(): reject(new Error('ACP initialization timeout'))
InitTimeout(p) ==
  /\ p = Min(initTimers)
  /\ p \notin sessionTimers
  /\ initTimers' = initTimers \ {p}
  /\ startPromise' = [startPromise EXCEPT ![p] =
                        IF @.state = "pending"
                        THEN [state |-> "rejected",
                              value |-> "ACP initialization timeout"]
                        ELSE @]
  /\ lastReturn' = NoReturn
  /\ inbound' = NoLine
  /\ UNCHANGED <<feedVars, variant, registryVars, logVars, promptVars, cliProcess,
                 procs, spawned, readyListeners, sessionTimers, initialized,
                 sessionId, sent, processCalls, batchRuns>>

\* a 'close' listener that keeps the handle of the child that exited
CloseEventKeepsHandle(p) ==
  /\ p \in procs
  /\ procs' = procs \ {p}
  /\ initialized' = FALSE
  /\ sessionId' = Null
  /\ lastReturn' = NoReturn
  /\ inbound' = NoLine
  /\ UNCHANGED <<feedVars, variant, registryVars, logVars, promptVars, cliProcess,
                 spawned, startPromise, readyListeners, initTimers,
                 sessionTimers, sent, processCalls, batchRuns>>

\* the child's 'close' event, as handled by the listener start() registered
CloseEvent(p) ==
  /\ p \in procs
  /\ procs' = procs \ {p}
  /\ cliProcess' = NoProcess
  /\ initialized' = FALSE
  /\ sessionId' = Null
  /\ lastReturn' = NoReturn
  /\ inbound' = NoLine
  /\ UNCHANGED <<feedVars, variant, registryVars, logVars, promptVars, spawned,
                 startPromise, readyListeners, initTimers, sessionTimers,
                 sent, processCalls, batchRuns>>

\* stop(): kill the child (its 'close' event follows later)
Stop ==
  /\ variant = "interactive"
  /\ cliProcess' = NoProcess
  /\ initialized' = FALSE
  /\ sessionId' = Null
  /\ lastReturn' = [op |-> "stop", outcome |-> Null]
  /\ inbound' = NoLine
  /\ UNCHANGED <<feedVars, variant, registryVars, logVars, promptVars, procs, spawned,
                 startPromise, readyListeners, initTimers, sessionTimers,
                 sent, processCalls, batchRuns>>

(***************************************************************************)
(* Interactive variant: prompts.                                           *)
(***************************************************************************)
\* generateRequestId(): ++this.messageId
GenerateRequestId == messageId + 1

\* sendPrompt(content) once a session id is held: allocate the id, store
\* the resolver, send the request, arm the 120 s timer
IssuePrompt ==
  /\ messageId < MaxPrompts
  /\ CanSend
  /\ messageId' = GenerateRequestId
  /\ prompts' = Append(prompts, PendingPrompt)
  /\ pendingRequests' = pendingRequests \cup {GenerateRequestId}
  /\ sent' = Send(Outbound("request", "session/prompt", GenerateRequestId,
                           NoValue, "", <<>>))
  /\ promptTimers' = promptTimers \cup {GenerateRequestId}

\* a sendPrompt without its session check
SendPromptUnchecked ==
  /\ variant = "interactive"
  /\ IssuePrompt
  /\ lastReturn' = [op |-> "sendPrompt", outcome |-> "pending"]
  /\ inbound' = NoLine
  /\ UNCHANGED <<feedVars, variant, registryVars, logVars, procVars, initialized,
                 sessionId, processCalls, batchRuns>>

\* a host calling sendPrompt(content)
SendPrompt ==
  /\ variant = "interactive"
  /\ IF sessionId = Null
     THEN /\ lastReturn' = [op |-> "sendPrompt", outcome |-> "No session"]
          /\ UNCHANGED <<promptVars, sent>>
     ELSE /\ IssuePrompt
          /\ lastReturn' = [op |-> "sendPrompt", outcome |-> "pending"]
  /\ inbound' = NoLine
  /\ UNCHANGED <<feedVars, variant, registryVars, logVars, procVars, initialized,
                 sessionId, processCalls, batchRuns>>

\* a 120 s timer that resolves without looking at pendingRequests
PromptTimeoutUnguarded(reqId) ==
  /\ reqId = Min(promptTimers)
  /\ promptTimers' = promptTimers \ {reqId}
  /\ pendingRequests' = pendingRequests \ {reqId}
  /\ prompts' = [prompts EXCEPT ![reqId] = Resolve(@, TimeoutAnswer)]
  /\ processCalls' = SettleProcessCalls(processCalls, prompts')
  /\ lastReturn' = NoReturn
  /\ inbound' = NoLine
  /\ UNCHANGED <<feedVars, variant, registryVars, logVars, procVars, messageId,
                 initialized, sessionId, sent, batchRuns>>

\* the 120 s timer of sendPrompt for request reqId
PromptTimeout(reqId) ==
  /\ reqId = Min(promptTimers)
  /\ promptTimers' = promptTimers \ {reqId}
  /\ IF reqId \in pendingRequests
     THEN /\ pendingRequests' = pendingRequests \ {reqId}
          /\ prompts' = [prompts EXCEPT ![reqId] = Resolve(@, TimeoutAnswer)]
     ELSE UNCHANGED <<pendingRequests, prompts>>
  /\ processCalls' = SettleProcessCalls(processCalls, prompts')
  /\ lastReturn' = NoReturn
  /\ inbound' = NoLine
  /\ UNCHANGED <<feedVars, variant, registryVars, logVars, procVars, messageId,
                 initialized, sessionId, sent, batchRuns>>

(***************************************************************************)
(* Interactive variant: inbound messages.                                  *)
(***************************************************************************)
\* handleMessage, the branch of a message with an id and a result
HandleResult(msg) ==
  /\ pendingRequests' = pendingRequests \ {msg.id}
  /\ prompts' = IF msg.id \in pendingRequests
                THEN [prompts EXCEPT ![msg.id] =
                        Resolve(@, ResultAnswer(msg.result))]
                ELSE prompts
  /\ processCalls' = SettleProcessCalls(processCalls, prompts')
  /\ IF msg.id = 1 /\ msg.result.sessionId # ""
     THEN \* this.sessionId = ...; emit('ready'): every once('ready')
          \* listener clears its timer and resolves its start() promise
          /\ sessionId' = msg.result.sessionId
          /\ readyListeners' = {}
          /\ initTimers' = initTimers \ readyListeners
          /\ startPromise' =
               [p \in DOMAIN startPromise |->
                  IF p \in readyListeners /\ startPromise[p].state = "pending"
                  THEN [state |-> "resolved", value |-> msg.result.sessionId]
                  ELSE startPromise[p]]
     ELSE UNCHANGED <<sessionId, readyListeners, initTimers, startPromise>>
  /\ UNCHANGED <<feedVars, variant, registryVars, logVars, messageId, promptTimers,
                 cliProcess, procs, spawned, sessionTimers, initialized,
                 sent, batchRuns>>

\* an error branch that completes the oldest pending request
HandleErrorOldestPending(msg) ==
  LET target == IF pendingRequests # {} THEN Min(pendingRequests) ELSE msg.id
  IN /\ pendingRequests' = pendingRequests \ {target}
     /\ prompts' = IF target \in pendingRequests
                   THEN [prompts EXCEPT ![target] =
                           Resolve(@, ErrorAnswer(msg.error))]
                   ELSE prompts
     /\ processCalls' = SettleProcessCalls(processCalls, prompts')
     /\ UNCHANGED <<feedVars, variant, registryVars, logVars, messageId,
                    promptTimers, procVars, initialized, sessionId, sent,
                    batchRuns>>

\* handleMessage, the branch of a message with an id and an error
HandleError(msg) ==
  /\ pendingRequests' = pendingRequests \ {msg.id}
  /\ prompts' = IF msg.id \in pendingRequests
                THEN [prompts EXCEPT ![msg.id] =
                        Resolve(@, ErrorAnswer(msg.error))]
                ELSE prompts
  /\ processCalls' = SettleProcessCalls(processCalls, prompts')
  /\ UNCHANGED <<feedVars, variant, registryVars, logVars, messageId, promptTimers,
                 procVars, initialized, sessionId, sent, batchRuns>>

\* handleMessage, the branch of an 'initialize' request
HandleInitialize(msg) ==
  /\ CanSend
  /\ sent' = Send(CreateInitializeResponse(msg.id))
  /\ initialized' = TRUE
  /\ UNCHANGED <<feedVars, variant, registryVars, logVars, promptVars, procVars,
                 sessionId, processCalls, batchRuns>>

\* a handleMessage that forgets the session on a line it cannot parse
HandleMessageForgetful(line) ==
  /\ variant = "interactive"
  /\ procs # {}
  /\ inbound' = line
  /\ lastReturn' = NoReturn
  /\ IF ~line.valid
     THEN /\ sessionId' = Null
          /\ UNCHANGED <<feedVars, variant, registryVars, logVars, procVars,
                         promptVars, initialized, processCalls, sent,
                         batchRuns>>
     ELSE IF line.method = "initialize" THEN HandleInitialize(line)
     ELSE IF line.id # NoId /\ line.result.defined THEN HandleResult(line)
     ELSE IF line.id # NoId /\ line.error # "" THEN HandleError(line)
     ELSE IF line.method = "tools/"
     THEN HandleToolCall(line.id, line.toolName, line.params)
     ELSE UNCHANGED engineVars

\* handleMessage(line), for a line some child wrote to its stdout
HandleMessage(line) ==
  /\ variant = "interactive"
  /\ procs # {}
  /\ inbound' = line
  /\ lastReturn' = NoReturn
  /\ IF ~line.valid THEN UNCHANGED engineVars
     ELSE IF line.method = "initialize" THEN HandleInitialize(line)
     ELSE IF line.id # NoId /\ line.result.defined THEN HandleResult(line)
     ELSE IF line.id # NoId /\ line.error # "" THEN HandleError(line)
     ELSE IF line.method = "tools/"
     THEN HandleToolCall(line.id, line.toolName, line.params)
     ELSE \* 'session/update' is emitted as an event; anything else is ignored
          UNCHANGED engineVars

(***************************************************************************)
(* Interactive variant: the stdout 'data' handler and processBuffer.       *)
(*                                                                         *)
(* A child's output is UTF-8: a sequence of bytes.  The model has three    *)
(* one-byte characters, a letter "a", a space " " and a newline "nl", and  *)
(* one two-byte character "E", whose bytes are "L" (lead) and "T" (trail). *)
(* Buffer.prototype.toString() decodes each chunk on its own and yields    *)
(* U+FFFD, "?", for every byte that is not part of a complete character.   *)
(* None of these lines is JSON: handleMessage returns from its catch.      *)
(***************************************************************************)
\* characters in a child's output
MaxInputChars == 4
Chars == {"a", " ", "nl", "E"}

\* the UTF-8 bytes of a text
RECURSIVE Encode(_)
Encode(text) ==
  IF text = <<>> THEN <<>>
  ELSE (IF Head(text) = "E" THEN <<"L", "T">> ELSE <<Head(text)>>)
         \o Encode(Tail(text))

\* data.toString(): the characters a chunk of bytes decodes to
RECURSIVE Decode(_)
Decode(bytes) ==
  IF bytes = <<>> THEN <<>>
  ELSE IF Head(bytes) = "L"
  THEN IF Len(bytes) >= 2 /\ bytes[2] = "T"
       THEN <<"E">> \o Decode(Tail(Tail(bytes)))
       ELSE <<"?">> \o Decode(Tail(bytes))
  ELSE IF Head(bytes) = "T" THEN <<"?">> \o Decode(Tail(bytes))
  ELSE <<Head(bytes)>> \o Decode(Tail(bytes))

RECURSIVE TextsUpTo(_)
TextsUpTo(n) ==
  IF n = 0 THEN {<<>>}
  ELSE LET shorter == TextsUpTo(n - 1)
       IN shorter \cup {Append(t, c) : t \in shorter, c \in Chars}
\* what a child may write
StdoutTexts == {Encode(t) : t \in TextsUpTo(MaxInputChars)}

\* buffer.split('\n')
RECURSIVE SplitNewlines(_, _, _)
SplitNewlines(text, cur, acc) ==
  IF text = <<>> THEN Append(acc, cur)
  ELSE IF Head(text) = "nl"
  THEN SplitNewlines(Tail(text), <<>>, Append(acc, cur))
  ELSE SplitNewlines(Tail(text), Append(cur, Head(text)), acc)

\* line.trim()
RECURSIVE TrimStart(_)
TrimStart(line) ==
  IF line # <<>> /\ Head(line) = " " THEN TrimStart(Tail(line)) ELSE line
RECURSIVE TrimEnd(_)
TrimEnd(line) ==
  IF line # <<>> /\ line[Len(line)] = " "
  THEN TrimEnd(SubSeq(line, 1, Len(line) - 1)) ELSE line
Trim(line) == TrimEnd(TrimStart(line))

\* the loop of processBuffer: the trimmed, non-empty lines, in order
RECURSIVE TrimmedLines(_)
TrimmedLines(lines) ==
  IF lines = <<>> THEN <<>>
  ELSE (IF Trim(Head(lines)) = <<>> THEN <<>> ELSE <<Trim(Head(lines))>>)
         \o TrimmedLines(Tail(lines))

\* processBuffer() on a buffer: the lines it passes to handleMessage and
\* the buffer it leaves (lines.pop() || '')
ProcessBuffer(buf) ==
  LET lines == SplitNewlines(buf, <<>>, <<>>)
  IN [dispatched |-> TrimmedLines(SubSeq(lines, 1, Len(lines) - 1)),
      buffer |-> lines[Len(lines)]]

\* a 'data' event of a child's stdout with the next n bytes:
\* this.buffer += data.toString(); this.processBuffer()
Data(n) ==
  /\ variant = "interactive"
  /\ procs # {}
  /\ n \in 1 .. (Len(stdoutBytes) - delivered)
  /\ LET chunk == SubSeq(stdoutBytes, delivered + 1, delivered + n)
         r == ProcessBuffer(buffer \o Decode(chunk))
     IN /\ buffer' = r.buffer
        /\ dispatched' = dispatched \o r.dispatched
  /\ delivered' = delivered + n
  /\ inbound' = NoLine
  /\ lastReturn' = NoReturn
  /\ UNCHANGED <<stdoutBytes, variant, registryVars, logVars, sessionVars,
                 sent, batchRuns>>

(***************************************************************************)
(* Interactive variant: process(text).                                     *)
(***************************************************************************)
ProcessCallRecord(state, pid, reqId, error) ==
  [state |-> state, pid |-> pid, reqId |-> reqId, error |-> error,
   result |-> NoAnswer, toolCalls |-> NoView]

\* a host calling process(text): start() when no handle is held, else
\* sendPrompt at once
Process ==
  /\ variant = "interactive"
  /\ Len(processCalls) < MaxProcessCalls
  /\ IF cliProcess = NoProcess
     THEN /\ Spawn
          /\ processCalls' = Append(processCalls,
               ProcessCallRecord("awaitStart", spawned + 1, 0, ""))
          /\ UNCHANGED <<promptVars, sent>>
     ELSE /\ IF sessionId = Null
             THEN /\ processCalls' = Append(processCalls,
                       ProcessCallRecord("rejected", 0, 0, "No session"))
                  /\ UNCHANGED <<promptVars, sent>>
             ELSE /\ IssuePrompt
                  /\ processCalls' = Append(processCalls,
                       ProcessCallRecord("awaitPrompt", 0,
                                         GenerateRequestId, ""))
          /\ UNCHANGED procVars
  /\ lastReturn' = NoReturn
  /\ inbound' = NoLine
  /\ UNCHANGED <<feedVars, variant, registryVars, logVars, initialized, sessionId,
                 batchRuns>>

\* process() after `await this.start(cli)` has settled for invocation k
ProcessResume(k) ==
  /\ processCalls[k].state = "awaitStart"
  /\ startPromise[processCalls[k].pid].state # "pending"
  /\ IF startPromise[processCalls[k].pid].state = "rejected"
     THEN /\ processCalls' = [processCalls EXCEPT ![k].state = "rejected",
                ![k].error = startPromise[processCalls[k].pid].value]
          /\ UNCHANGED <<promptVars, sent>>
     ELSE IF sessionId = Null
     THEN /\ processCalls' = [processCalls EXCEPT ![k].state = "rejected",
                                                  ![k].error = "No session"]
          /\ UNCHANGED <<promptVars, sent>>
     ELSE /\ IssuePrompt
          /\ processCalls' = [processCalls EXCEPT ![k].state = "awaitPrompt",
                                                  ![k].reqId = GenerateRequestId]
  /\ lastReturn' = NoReturn
  /\ inbound' = NoLine
  /\ UNCHANGED <<feedVars, variant, registryVars, logVars, procVars, initialized,
                 sessionId, batchRuns>>

(***************************************************************************)
(* Batch variant (src/unnamed/part_001): process(text).                    *)
(*                                                                         *)
(* The child's output is a sequence of tokens: a newline, or a piece of    *)
(* text without newlines that is one JSON object (a JSON-RPC tool request, *)
(* or a {type:'text', part:{text}} envelope whose text is again a sequence *)
(* of tokens) or that is not JSON.  A line parses as JSON when it is       *)
(* exactly one JSON token.                                                 *)
(***************************************************************************)
\* runs of process() in one behaviour
MaxBatchRuns == 1
\* tokens in one child's output
MaxOutputTokens == 2

Token(t, toolName, hasParams, text) ==
  [t |-> t, toolName |-> toolName, hasParams |-> hasParams, text |-> text]
Newline == Token("nl", "", FALSE, <<>>)
Chatter == Token("junk", "", FALSE, <<>>)
RpcTokens ==
  {Token("rpc", n, TRUE, <<>>) : n \in {"lookup", "toString"}}
    \cup {Token("rpc", "lookup", FALSE, <<>>)}
\* a text envelope may carry several lines
TwoCallTexts ==
  {<<Token("rpc", a, TRUE, <<>>), Newline, Token("rpc", b, TRUE, <<>>)>> :
     a \in {"lookup", "toString"}, b \in {"lookup"}}
    \cup {<<Token("rpc", "lookup", TRUE, <<>>), Newline,
            Token("rpc", "toString", TRUE, <<>>)>>}
TextTokens ==
  {Token("text", "", FALSE, <<Token("rpc", "lookup", TRUE, <<>>)>>)}
    \cup {Token("text", "", FALSE, text) : text \in TwoCallTexts}
OutputTokens == {Newline, Chatter} \cup RpcTokens \cup TextTokens

RECURSIVE SeqsUpTo(_, _)
SeqsUpTo(S, n) ==
  IF n = 0 THEN {<<>>}
  ELSE LET shorter == SeqsUpTo(S, n - 1)
       IN shorter \cup {Append(q, x) : q \in shorter, x \in S}
BatchOutputs == SeqsUpTo(OutputTokens, MaxOutputTokens)
ExitCodes == {"0", "1", "null"}

\* output.split('\n')
RECURSIVE SplitAcc(_, _, _)
SplitAcc(toks, cur, acc) ==
  IF toks = <<>> THEN Append(acc, cur)
  ELSE IF Head(toks).t = "nl"
  THEN SplitAcc(Tail(toks), <<>>, Append(acc, cur))
  ELSE SplitAcc(Tail(toks), Append(cur, Head(toks)), acc)
SplitLines(toks) == SplitAcc(toks, <<>>, <<>>)

\* a non-empty line that JSON.parse accepts
ParsesAsJson(line) == Len(line) = 1 /\ line[1].t \in {"rpc", "text"}

\* parseTextOutput(output): the texts of the text envelopes, concatenated
RECURSIVE ConcatTexts(_)
ConcatTexts(lines) ==
  IF lines = <<>> THEN <<>>
  ELSE (IF ParsesAsJson(Head(lines)) /\ Head(lines)[1].t = "text"
           /\ Head(lines)[1].text # <<>>
        THEN Head(lines)[1].text ELSE <<>>) \o ConcatTexts(Tail(lines))
ParseTextOutput(output) == ConcatTexts(SplitLines(output))

\* one scan of parseToolCalls: the tool requests among the lines
RECURSIVE ScanCalls(_)
ScanCalls(lines) ==
  IF lines = <<>> THEN <<>>
  ELSE (IF ParsesAsJson(Head(lines)) /\ Head(lines)[1].t = "rpc"
           /\ Head(lines)[1].hasParams
        THEN <<[toolName |-> Head(lines)[1].toolName, params |-> "q"]>>
        ELSE <<>>) \o ScanCalls(Tail(lines))

\* parseToolCalls(output): the extracted text is scanned, then the raw output
ParseToolCalls(output) ==
  ScanCalls(SplitLines(ParseTextOutput(output)))
    \o ScanCalls(SplitLines(output))

\* the promise process() returns
PendingRun == [state |-> "pending", error |-> "", toolCalls |-> <<>>]
SettleRun(promise, state, error, results) ==
  IF promise.state = "pending"
  THEN [state |-> state, error |-> error, toolCalls |-> results]
  ELSE promise

\* a host calling process(text): the child is spawned, the timer armed
BatchProcess ==
  /\ variant = "batch"
  /\ Len(batchRuns) < MaxBatchRuns
  /\ batchRuns' = Append(batchRuns,
       [phase |-> "running", scraped |-> <<>>, queue |-> <<>>,
        results |-> <<>>,
        callIdx |-> 0, timer |-> TRUE, promise |-> PendingRun])
  /\ lastReturn' = NoReturn
  /\ inbound' = NoLine
  /\ UNCHANGED <<feedVars, variant, registryVars, logVars, sessionVars, sent>>

\* a loop that passes over no call
SkipNone(queue) == queue

\* the calls of the queue the loop passes over: those not whitelisted
RECURSIVE SkipUnlisted(_)
SkipUnlisted(queue) ==
  IF queue = <<>> \/ WhitelistHas(Head(queue).toolName) THEN queue
  ELSE SkipUnlisted(Tail(queue))

\* The scrape loop of run k, from the call at the head of `queue` to its
\* next await or to its end; `scraped` is what parseToolCalls returned,
\* `log` and `cs` are this.toolCallLog and the invocations as the loop
\* finds them.
BatchLoop(k, scraped, queue, results, log, cs) ==
  LET rest == SkipUnlisted(queue)
  IN IF rest = <<>>
     THEN /\ batchRuns' = [batchRuns EXCEPT
               ![k].phase = "settled", ![k].scraped = scraped,
               ![k].queue = <<>>, ![k].results = results,
               ![k].promise = SettleRun(@, "resolved", "", results)]
          /\ toolCallLog' = log
          /\ calls' = cs
          /\ UNCHANGED rejectedCallLog
     ELSE /\ Len(cs) < MaxCalls
          /\ LET r == CallToolEnterOn(log, "batch", k, Head(rest).toolName,
                                      Head(rest).params)
             IN /\ rejectedCallLog' = r.rejected
                /\ toolCallLog' = r.log
                /\ calls' = Append(cs, r.call)
                /\ batchRuns' = [batchRuns EXCEPT
                     ![k].phase = IF r.call.state = "threw"
                                  THEN "settled" ELSE "awaiting",
                     ![k].scraped = scraped,
                     ![k].queue = rest, ![k].results = results,
                     ![k].callIdx = Len(cs) + 1,
                     ![k].promise = IF r.call.state = "threw"
                                    THEN SettleRun(@, "resolved",
                                                   r.call.error, <<>>)
                                    ELSE @]

\* the child's 'close' event with its exit code and all it has written
BatchClose(k, code, output) ==
  /\ batchRuns[k].phase = "running"
  /\ IF code # "0" /\ code # "null" /\ output = <<>>
     THEN /\ batchRuns' = [batchRuns EXCEPT
               ![k].phase = "settled",
               ![k].promise = SettleRun(@, "rejected", "CLI exited", <<>>)]
          /\ UNCHANGED logVars
     ELSE BatchLoop(k, ParseToolCalls(output), ParseToolCalls(output),
                    <<>>, toolCallLog, calls)
  /\ lastReturn' = NoReturn
  /\ inbound' = NoLine
  /\ UNCHANGED <<feedVars, variant, registryVars, sessionVars, sent>>

\* the handler awaited by the loop of run k settles: the result is pushed
\* and the loop goes on, or the failure ends the loop in its catch
BatchResume(k) ==
  /\ batchRuns[k].phase = "awaiting"
  /\ LET i == batchRuns[k].callIdx
         r == CallToolResume(calls[i])
     IN IF r.call.state = "returned"
        THEN BatchLoop(k, batchRuns[k].scraped, Tail(batchRuns[k].queue),
                       Append(batchRuns[k].results,
                              [tool |-> r.call.toolName,
                               result |-> r.call.value]),
                       r.log, [calls EXCEPT ![i] = r.call])
        ELSE /\ calls' = [calls EXCEPT ![i] = r.call]
             /\ toolCallLog' = r.log
             /\ batchRuns' = [batchRuns EXCEPT
                  ![k].phase = "settled",
                  ![k].promise = SettleRun(@, "resolved", r.call.error, <<>>)]
             /\ UNCHANGED rejectedCallLog
  /\ lastReturn' = NoReturn
  /\ inbound' = NoLine
  /\ UNCHANGED <<feedVars, variant, registryVars, sessionVars, sent>>

\* the 120 s timer of process(): child.kill(); reject(new Error('Timeout'))
BatchTimeout(k) ==
  /\ batchRuns[k].timer
  /\ batchRuns' = [batchRuns EXCEPT
       ![k].timer = FALSE,
       ![k].promise = SettleRun(@, "rejected", "Timeout", <<>>)]
  /\ lastReturn' = NoReturn
  /\ inbound' = NoLine
  /\ UNCHANGED <<feedVars, variant, registryVars, logVars, sessionVars, sent>>

(***************************************************************************)
(* The specifications.                                                     *)
(***************************************************************************)
\* the object after construction
InitEngine ==
  /\ variant \in {"interactive", "batch"}
  /\ messageId = 0
  /\ toolWhitelist = <<>>
  /\ tools = <<>>
  /\ toolDescriptions = <<>>
  /\ toolCallLog = <<>>
  /\ rejectedCallLog = <<>>
  /\ cliProcess = NoProcess
  /\ pendingRequests = {}
  /\ initialized = FALSE
  /\ sessionId = Null
  /\ procs = {}
  /\ spawned = 0
  /\ startPromise = <<>>
  /\ readyListeners = {}
  /\ initTimers = {}
  /\ sessionTimers = {}
  /\ prompts = <<>>
  /\ promptTimers = {}
  /\ sent = <<>>
  /\ calls = <<>>
  /\ processCalls = <<>>
  /\ batchRuns = <<>>
  /\ buffer = <<>>
  /\ dispatched = <<>>
  /\ delivered = 0
  /\ inbound = NoLine
  /\ lastReturn = NoReturn

\* ... whose children write nothing but what HandleMessage is given
Init == InitEngine /\ stdoutBytes = <<>>

\* ... whose child writes some text, which 'data' events deliver in chunks
InitBuffer == InitEngine /\ stdoutBytes \in StdoutTexts

\* The registry, the invocation guard and what delivers tool requests to
\* them, in either variant.  These are the steps that write toolWhitelist,
\* tools, toolCallLog, rejectedCallLog and calls, with start(), which lets
\* a child deliver lines.  No step of the guard reads a description: the
\* tools are registered with one.
NextTools ==
  \/ \E n \in RegNames, h \in HandlerKinds : RegisterTool(n, "d1", h)
  \/ \E n \in ToolNames, q \in Params : CallTool(n, q)
  \/ \E i \in DOMAIN calls : ToolResume(i)
  \/ Start
  \/ \E line \in ToolLines : HandleMessage(line)
  \/ BatchProcess
  \/ \E k \in DOMAIN batchRuns, code \in ExitCodes, output \in BatchOutputs :
       BatchClose(k, code, output)
  \/ \E k \in DOMAIN batchRuns : BatchResume(k)
  \/ \E k \in DOMAIN batchRuns : BatchTimeout(k)

\* the lines that answer a request, and noise
PromptLines == {line \in SessionLines : line.method # "initialize"}

\* The prompts of the interactive variant: the steps that write messageId,
\* pendingRequests, the prompt promises and their timers, the start()
\* promises and sessionId, and that send requests.
NextPrompts ==
  \/ Start
  \/ \E p \in sessionTimers : CreateSession(p)
  \/ \E p \in initTimers : InitTimeout(p)
  \/ \E p \in procs : CloseEvent(p)
  \/ Stop
  \/ SendPrompt
  \/ \E r \in promptTimers : PromptTimeout(r)
  \/ \E line \in PromptLines : HandleMessage(line)

\* the lines of the handshake, and noise
HandshakeLines ==
  {line \in SessionLines :
     line.method = "initialize" \/ ~line.valid \/ line.result.sessionId # ""}

\* The process lifecycle of the interactive variant: the steps that write
\* cliProcess, initialized and sessionId, with process().
NextLifecycle ==
  \/ Start
  \/ \E p \in sessionTimers : CreateSession(p)
  \/ \E p \in initTimers : InitTimeout(p)
  \/ \E p \in procs : CloseEvent(p)
  \/ Stop
  \/ \E r \in promptTimers : PromptTimeout(r)
  \/ \E line \in HandshakeLines : HandleMessage(line)
  \/ Process
  \/ \E k \in DOMAIN processCalls : ProcessResume(k)

\* the 'initialize' requests, and noise
InitializeLines ==
  {line \in SessionLines : line.method = "initialize" \/ ~line.valid}

\* The answer to 'initialize': the steps that write the registry,
\* initialized and the handle send() looks at, and that send.  No step of
\* it reads a handler: the tools are registered with one.
NextInitialize ==
  \/ \E n \in RegNames, d \in Descriptions : RegisterTool(n, d, "returns")
  \/ Start
  \/ \E p \in sessionTimers : CreateSession(p)
  \/ \E p \in procs : CloseEvent(p)
  \/ Stop
  \/ \E line \in InitializeLines : HandleMessage(line)

\* The stdout of one child: start() and the 'data' events.
NextBuffer ==
  \/ Start
  \/ \E n \in 1 .. (2 * MaxInputChars) : Data(n)

Next ==
  NextTools \/ NextPrompts \/ NextLifecycle \/ NextInitialize \/ NextBuffer

\* the whole engine
Spec == Init /\ [][Next]_vars
SpecTools == Init /\ [][NextTools]_vars
SpecPrompts == Init /\ [][NextPrompts]_vars
SpecLifecycle == Init /\ [][NextLifecycle]_vars
SpecInitialize == Init /\ [][NextInitialize]_vars
SpecBuffer == InitBuffer /\ [][NextBuffer]_vars

(***************************************************************************)
(* Properties of the tool registry and the invocation guard (SpecTools).   *)
(***************************************************************************)
\* C1: a tool handler runs only for a name that was in toolWhitelist when
\* callTool was entered, whichever way the call came in (the host, an
\* inbound tools/ request, a call scraped from a batch run's output).
C1_HandlerOnlyIfWhitelisted ==
  \A i \in DOMAIN calls : calls[i].handlerRan => calls[i].whitelisted

\* a handler has run for an inbound request while another request, for a
\* name nobody registered but every JS object carries, was turned down
C1_Witness ==
  \E i, j \in DOMAIN calls :
    /\ calls[i].via = "rpc" /\ calls[i].handlerRan
    /\ calls[j].toolName = "toString" /\ ~calls[j].whitelisted
    /\ ~calls[j].handlerRan

\* C2: a callTool for a name outside toolWhitelist fails with the whitelist
\* error, appends exactly one record to rejectedCallLog, naming the tool and
\* carrying the whitelist as it is at the call, leaves toolCallLog unchanged
\* and runs no handler.
C2_RejectionLogged ==
  [][(Len(calls') = Len(calls) + 1 /\ ~calls'[Len(calls')].whitelisted)
       => LET c == calls'[Len(calls')]
          IN /\ c.state = "threw"
             /\ c.error = "Tool not available"
             /\ ~c.handlerRan
             /\ rejectedCallLog' =
                  Append(rejectedCallLog,
                         [attemptedTool |-> c.toolName,
                          reason |-> "Not in whitelist",
                          availableTools |-> toolWhitelist])
             /\ toolCallLog' = toolCallLog]_vars

\* a call was turned down while the whitelist held a name, and its record
\* carries that whitelist
C2_Witness ==
  /\ \E i \in DOMAIN calls : ~calls[i].whitelisted /\ calls[i].state = "threw"
  /\ \E j \in DOMAIN rejectedCallLog :
       /\ rejectedCallLog[j].availableTools # <<>>
       /\ rejectedCallLog[j].attemptedTool
            \notin Range(rejectedCallLog[j].availableTools)

\* C3: the record a callTool invocation appended is 'completed' and carries
\* the handler's result once that invocation has returned it.
C3_OwnRecordCompleted ==
  \A i \in DOMAIN calls :
    calls[i].state = "returned"
      => /\ toolCallLog[calls[i].logIdx].status = "completed"
         /\ toolCallLog[calls[i].logIdx].result = calls[i].value

\* C4: once an invocation whose handler failed has finished, the record it
\* appended is no longer 'executing'.
C4_FailedRecordTerminal ==
  \A i \in DOMAIN calls :
    (calls[i].handlerRan /\ calls[i].state = "threw")
      => toolCallLog[calls[i].logIdx].status # "executing"

\* the steps of the scrape loop of run k
BatchLoopStep(k) ==
  /\ batchRuns[k].phase \in {"running", "awaiting"}
  /\ batchRuns'[k].phase # batchRuns[k].phase
       \/ batchRuns'[k].callIdx # batchRuns[k].callIdx

\* C14: in the batch variant a scraped call is handed to callTool only if
\* its name is whitelisted; the loop passes over the others and leaves no
\* record of them: a step of the loop appends nothing to rejectedCallLog
\* and appends to toolCallLog one record per call it made, each for a
\* scraped, whitelisted name; the results of a run are for whitelisted
\* names among its scraped calls.
C14_BatchSkipsUnlisted ==
  [][\A k \in DOMAIN batchRuns :
       BatchLoopStep(k)
         => /\ rejectedCallLog' = rejectedCallLog
            /\ Len(calls') <= Len(calls) + 1
            /\ Len(toolCallLog') - Len(toolCallLog) = Len(calls') - Len(calls)
            /\ \A i \in (Len(calls) + 1) .. Len(calls') :
                 /\ calls'[i].via = "batch"
                 /\ calls'[i].whitelisted
                 /\ toolCallLog'[Len(toolCallLog')].toolName = calls'[i].toolName
                 /\ \E j \in DOMAIN batchRuns'[k].scraped :
                      batchRuns'[k].scraped[j].toolName = calls'[i].toolName
            /\ \A j \in DOMAIN batchRuns'[k].results :
                 /\ WhitelistHas(batchRuns'[k].results[j].tool)
                 /\ \E i \in DOMAIN batchRuns'[k].scraped :
                      batchRuns'[k].scraped[i].toolName
                        = batchRuns'[k].results[j].tool]_vars

\* a run scraped a call for a registered tool and one for 'toString',
\* ran the first and passed over the second, which left no record
C14_Witness ==
  \E k \in DOMAIN batchRuns :
    /\ batchRuns[k].phase = "settled"
    /\ Len(batchRuns[k].scraped) = 2
    /\ \E j \in DOMAIN batchRuns[k].scraped :
         batchRuns[k].scraped[j].toolName = "toString"
    /\ Len(batchRuns[k].results) = 1
    /\ batchRuns[k].promise.state = "resolved"
    /\ Len(toolCallLog) = 1
    /\ rejectedCallLog = <<>>
    /\ Len(calls) = 1

\* C15: a callTool for a whitelisted name that has no handler fails with
\* the 'Unknown tool' error, which is not the whitelist error, runs nothing
\* and appends no record to rejectedCallLog.
C15_UnknownToolDistinct ==
  [][(/\ Len(calls') = Len(calls) + 1
      /\ WhitelistHas(calls'[Len(calls')].toolName)
      /\ tools[calls'[Len(calls')].toolName] = "undefined")
       => LET c == calls'[Len(calls')]
          IN /\ c.state = "threw"
             /\ c.error = "Unknown tool"
             /\ c.error # "Tool not available"
             /\ ~c.handlerRan
             /\ rejectedCallLog' = rejectedCallLog]_vars

\* the host has met both errors through registerTool and callTool
C15_Witness ==
  \E i, j \in DOMAIN calls :
    /\ calls[i].via = "api" /\ calls[i].error = "Unknown tool"
    /\ calls[j].via = "api" /\ calls[j].error = "Tool not available"
    /\ Len(rejectedCallLog) = 1

\* C16: the two logs are append-only: they never get shorter, a
\* RejectionRecord never changes, and a CallRecord changes only once, from
\* 'executing' to 'completed' with a result.
C16_LogsAppendOnly ==
  [][/\ Len(rejectedCallLog') >= Len(rejectedCallLog)
     /\ Len(toolCallLog') >= Len(toolCallLog)
     /\ \A i \in DOMAIN rejectedCallLog :
          rejectedCallLog'[i] = rejectedCallLog[i]
     /\ \A i \in DOMAIN toolCallLog :
          \/ toolCallLog'[i] = toolCallLog[i]
          \/ /\ toolCallLog[i].status = "executing"
             /\ toolCallLog'[i] =
                  [toolCallLog[i] EXCEPT !.status = "completed",
                                         !.result = toolCallLog'[i].result]]_vars

\* C18: a completed record carries the result of its own toolName and
\* params, whichever invocations were in flight with it.
C18_RecordHoldsOwnResult ==
  \A i \in DOMAIN toolCallLog :
    toolCallLog[i].status = "completed"
      => toolCallLog[i].result
           = <<toolCallLog[i].toolName, toolCallLog[i].params>>

\* the responses to tool requests written so far
ToolResponses ==
  SelectSeq(sent, LAMBDA m : m.kind \in {"result", "error"} /\ m.method = "")

\* C20: in the interactive variant, while the process handle is held, a
\* tools/ request is answered exactly once and with its own id: by an
\* error when callTool fails at once (name not whitelisted, no handler) or
\* when the handler fails, by the handler's result when it succeeds, and by
\* nothing as long as the handler is suspended.
C20_ToolRequestAnsweredOnce ==
  [][/\ (inbound'.method = "tools/" /\ cliProcess # NoProcess)
          => LET c == calls'[Len(calls')]
             IN /\ Len(calls') = Len(calls) + 1
                /\ c.via = "rpc" /\ c.rpcId = inbound'.id
                /\ c.toolName = inbound'.toolName
                /\ IF c.state = "awaiting" THEN sent' = sent
                   ELSE /\ ~c.whitelisted \/ tools[c.toolName] = "undefined"
                        /\ sent' = Append(sent,
                             [to |-> cliProcess, kind |-> "error",
                              method |-> "", id |-> inbound'.id,
                              result |-> NoValue, error |-> c.error,
                              tools |-> <<>>])
     /\ \A i \in DOMAIN calls :
          (/\ calls[i].via = "rpc" /\ calls[i].state = "awaiting"
           /\ calls'[i].state # "awaiting" /\ cliProcess # NoProcess)
            => /\ Len(sent') = Len(sent) + 1
               /\ SubSeq(sent', 1, Len(sent)) = sent
               /\ sent'[Len(sent')].id = calls[i].rpcId
               /\ sent'[Len(sent')].to = cliProcess
               /\ IF calls[i].handler = "throws"
                  THEN sent'[Len(sent')].kind = "error"
                  ELSE /\ sent'[Len(sent')].kind = "result"
                       /\ sent'[Len(sent')].result
                            = <<calls[i].toolName, calls[i].params>>
     /\ (variant = "interactive" /\ cliProcess' # NoProcess)
          => Len(ToolResponses') =
               Cardinality({i \in DOMAIN calls' :
                              /\ calls'[i].via = "rpc"
                              /\ calls'[i].state # "awaiting"})]_vars

\* a request with id 1 was answered by an error and a request with id 2 by
\* its handler's result
C20_Witness ==
  \E a, b \in DOMAIN sent :
    /\ sent[a].kind = "error" /\ sent[a].id = 1
    /\ sent[b].kind = "result" /\ sent[b].id = 2
    /\ Len(calls) = 2
    /\ \A i \in DOMAIN calls : calls[i].via = "rpc"

(***************************************************************************)
(* Properties of the prompts (SpecPrompts).                                *)
(***************************************************************************)
\* C5: the resolver of a prompt request is called at most once, and a
\* settled prompt never changes; when the timer of a request still pending
\* fires, the prompt resolves with the timeout indicator and the pending
\* entry is removed; a response or a timer for a request no longer pending
\* changes no prompt.
C5_ResolvedAtMostOnce ==
  [][/\ \A id \in DOMAIN prompts' : prompts'[id].resolveCalls <= 1
     /\ \A id \in DOMAIN prompts :
          /\ prompts[id].state = "resolved" => prompts'[id] = prompts[id]
          /\ id \notin pendingRequests => prompts'[id] = prompts[id]
          /\ (id \in promptTimers /\ id \notin promptTimers'
              /\ id \in pendingRequests)
               => /\ prompts'[id].state = "resolved"
                  /\ prompts'[id].value = TimeoutAnswer
                  /\ id \notin pendingRequests']_vars

\* the first prompt timed out; the second was answered and its timer has
\* fired since
C5_Witness ==
  /\ Len(prompts) = 2
  /\ prompts[1].value = TimeoutAnswer /\ prompts[1].resolveCalls = 1
  /\ prompts[2].value.tag = "result" /\ prompts[2].resolveCalls = 1
  /\ promptTimers = {} /\ pendingRequests = {}

\* C6: when the close event of the child is handled, every pending request
\* is completed by it: pendingRequests is empty afterwards.
C6_CloseCompletesPending ==
  [][(\E p \in procs : procs' = procs \ {p}) => pendingRequests' = {}]_vars

\* C7: the ids of the requests the engine sends are strictly increasing.
C7_RequestIdsIncrease ==
  \A i, j \in DOMAIN sent :
    (i < j /\ sent[i].kind = "request" /\ sent[j].kind = "request")
      => sent[i].id < sent[j].id

\* C9: while no child is alive sessionId stays null; a sendPrompt made
\* without a session id fails with 'No session', sends nothing, allocates no
\* request id, adds no pending entry and arms no timer.
C9_NoSessionFailsFast ==
  [][/\ procs = {} => sessionId' = Null
     /\ (lastReturn'.op = "sendPrompt" /\ sessionId = Null)
          => /\ lastReturn'.outcome = "No session"
             /\ UNCHANGED <<messageId, pendingRequests, prompts,
                            promptTimers, sent>>]_vars

\* the only child exited before its session was ready and the sendPrompt
\* that followed has failed
C9_Witness ==
  /\ spawned = 1 /\ procs = {}
  /\ startPromise[1].state # "resolved"
  /\ lastReturn = [op |-> "sendPrompt", outcome |-> "No session"]
  /\ messageId = 0 /\ pendingRequests = {}

\* C13: a line that does not parse as JSON is dropped: handling it changes
\* no field of the engine, no promise, no timer and no log, sends nothing
\* and raises nothing, so that whatever could be handled before it can be
\* handled after it.
C13_UnparsableLineDropped ==
  [][(inbound' # NoLine /\ ~inbound'.valid)
       => /\ UNCHANGED engineVars
          /\ lastReturn' = NoReturn]_vars

\* an unparsable line was just handled while a session was held and a
\* prompt was pending
C13_Witness ==
  /\ inbound # NoLine /\ ~inbound.valid
  /\ sessionId # Null
  /\ pendingRequests # {}
  /\ sent # <<>>

\* a line handleMessage takes for the response to a request
IsResponse(line) ==
  /\ line.valid /\ line.method # "initialize" /\ line.id # NoId
  /\ line.result.defined \/ line.error # ""

\* C19: a result or error message completes the pending request with the
\* message's id and no other: that request leaves pendingRequests and its
\* promise is resolved (never rejected) with the result, or with the error
\* tagged as such; every other request and promise is left as it was; a
\* message whose id is not pending completes nothing.
C19_ResponseCompletesItsRequest ==
  [][IsResponse(inbound')
       => /\ pendingRequests' = pendingRequests \ {inbound'.id}
          /\ DOMAIN prompts' = DOMAIN prompts
          /\ \A r \in DOMAIN prompts :
               r # inbound'.id => prompts'[r] = prompts[r]
          /\ IF inbound'.id \in pendingRequests
             THEN /\ prompts'[inbound'.id].state = "resolved"
                  /\ prompts'[inbound'.id].value =
                       IF inbound'.result.defined
                       THEN [tag |-> "result",
                             sessionId |-> inbound'.result.sessionId,
                             data |-> inbound'.result.data]
                       ELSE [tag |-> "error", sessionId |-> "",
                             data |-> inbound'.error]
             ELSE prompts' = prompts]_vars

\* with two requests pending, an error for the second was just delivered
\* to it and the first is still pending
C19_Witness ==
  /\ IsResponse(inbound) /\ inbound.id = 2 /\ inbound.error # ""
  /\ Len(prompts) = 2
  /\ prompts[2].value.tag = "error"
  /\ prompts[1].state = "pending" /\ 1 \in pendingRequests

(***************************************************************************)
(* Properties of the process lifecycle (SpecLifecycle).                    *)
(***************************************************************************)
\* C8: after the child's close event is handled, and after stop(), the
\* process handle is cleared, initialized is false and sessionId is null;
\* a process() call that finds no handle spawns a new child and holds its
\* handle.
C8_ExitClearsAndRelaunches ==
  [][/\ ((\E p \in procs : procs' = procs \ {p})
           \/ lastReturn'.op = "stop")
          => /\ cliProcess' = NoProcess
             /\ initialized' = FALSE
             /\ sessionId' = Null
     /\ (Len(processCalls') = Len(processCalls) + 1
           /\ cliProcess = NoProcess)
          => /\ spawned' = spawned + 1
             /\ cliProcess' = spawned'
             /\ cliProcess' \notin procs
             /\ cliProcess' \in procs']_vars

\* the first child has exited and a later process() spawned the second
C8_Witness ==
  /\ \E k \in DOMAIN processCalls : processCalls[k].pid = 2
  /\ 1 \notin procs /\ 2 \in procs
  /\ cliProcess = 2

\* C17: a start() call never returns a null session id.
C17_StartNeverReturnsNull ==
  lastReturn.op = "start" => lastReturn.outcome # Null

\* C21: the close event of a child whose handle the engine no longer holds
\* (stop() was called and another child was started since) clears neither
\* the handle of the new child nor its sessionId and initialized.
C21_StaleCloseLeavesNewProcess ==
  [][\A p \in procs :
       (procs' = procs \ {p} /\ cliProcess # NoProcess /\ cliProcess # p)
         => UNCHANGED <<cliProcess, sessionId, initialized>>]_vars

\* C10: a timeout never rejects: no start() promise is rejected.
C10_TimeoutsNeverReject ==
  \A p \in DOMAIN startPromise : startPromise[p].state # "rejected"

(***************************************************************************)
(* Properties of the answer to 'initialize' (SpecInitialize).              *)
(***************************************************************************)
\* C11: when an 'initialize' request is handled, initialized becomes true
\* and the response written (to the child whose handle is held; nothing is
\* written when none is held) carries the request's id and a tool list with
\* exactly one entry per whitelisted name, in order, each with the
\* description that name was last registered with.
C11_InitializeAdvertisesWhitelist ==
  [][(inbound'.valid /\ inbound'.method = "initialize")
       => /\ initialized' = TRUE
          /\ IF cliProcess = NoProcess THEN sent' = sent
             ELSE /\ Len(sent') = Len(sent) + 1
                  /\ SubSeq(sent', 1, Len(sent)) = sent
                  /\ LET m == sent'[Len(sent')]
                     IN /\ m.kind = "result"
                        /\ m.id = inbound'.id
                        /\ m.to = cliProcess
                        /\ Len(m.tools) = Len(toolWhitelist)
                        /\ Len(m.tools) = Cardinality(DOMAIN tools)
                        /\ \A i \in DOMAIN m.tools :
                             /\ m.tools[i].name = toolWhitelist[i]
                             /\ m.tools[i].name \in DOMAIN tools
                             /\ m.tools[i].description =
                                  toolDescriptions[toolWhitelist[i]]]_vars

\* an 'initialize' request with id 2 was just answered with two tools of
\* different descriptions
C11_Witness ==
  /\ inbound.method = "initialize" /\ inbound.id = 2
  /\ initialized
  /\ sent # <<>>
  /\ LET m == sent[Len(sent)]
     IN /\ m.method = "initialize" /\ m.id = 2
        /\ Len(m.tools) = 2
        /\ m.tools[1].description # m.tools[2].description

(***************************************************************************)
(* Properties of the stdout buffering (SpecBuffer).                        *)
(***************************************************************************)
\* C12: once all of a child's output is delivered, in whatever chunks, the
\* lines passed to handleMessage and the buffer left are those of the same
\* output delivered as one chunk.
C12_ChunkingInvariant ==
  delivered = Len(stdoutBytes)
    => /\ dispatched = ProcessBuffer(Decode(stdoutBytes)).dispatched
       /\ buffer = ProcessBuffer(Decode(stdoutBytes)).buffer

=============================================================================
